---- MODULE Spec2Model ----
(***************************************************************************)
(* CoAP option header codec (iot/options.py): the extended-field value     *)
(* codec (readExtendedFieldValue / writeExtendedFieldValue), the Options   *)
(* container (addOption, deleteOption, getOption, optionList, decode,      *)
(* encode) and the generated accessor views (_single_value_view,           *)
(* _items_view).                                                           *)
(*                                                                         *)
(* A byte is an integer in 0..255 and a byte string a sequence of bytes.   *)
(* A call that raises is a record whose status names the exception.        *)
(***************************************************************************)
EXTENDS Integers, Sequences, FiniteSets, TLC

VARIABLES
    _options,   \* Options._options: option number -> list of option instances
    input,      \* the arguments of the call under examination
    result,     \* what the last call returned or raised
    pc          \* the position of the run

vars == <<_options, input, result, pc>>

----------------------------------------------------------------------------
(* Bounds of the model *)

\* values tried beyond each end of the encodable range
ValueSlack == 3
\* longest run of trailing bytes that follows an encoded field
MaxTrailing == 2
\* longest raw byte string handed to readExtendedFieldValue
MaxExt == 3

----------------------------------------------------------------------------
(* Bytes *)

\* the byte string of n bytes, each b
Rep(n, b) == [i \in 1..n |-> b]

\* the sequences over S of length at most n
SeqsUpTo(S, n) == UNION { [1..k -> S] : k \in 0..n }

\* rawdata[k:] of Python (k >= 0): empty when k reaches past the end
SliceFrom(s, k) == IF k >= Len(s) THEN <<>> ELSE SubSeq(s, k + 1, Len(s))

\* rawdata[:k] of Python (k >= 0): silently shorter when k reaches past the end
SliceTo(s, k) == IF k >= Len(s) THEN s ELSE SubSeq(s, 1, k)

\* struct.unpack('!H', b)[0] for a two-byte b
UnpackH(b) == b[1] * 256 + b[2]

\* struct.pack('!H', v) for v in 0..65535
PackH(v) == <<v \div 256, v % 256>>

\* struct.pack('!B', v) for v in 0..255
PackB(v) == <<v>>

----------------------------------------------------------------------------
(* The extended-field value codec *)

readExtendedFieldValue(value, rawdata) ==
    IF value >= 0 /\ value < 13
    THEN [status |-> "ok", value |-> value, rawdata |-> rawdata]
    ELSE IF value = 13
    THEN IF Len(rawdata) = 0
         THEN [status |-> "IndexError"]
         ELSE [status |-> "ok", value |-> rawdata[1] + 13,
               rawdata |-> SliceFrom(rawdata, 1)]
    ELSE IF value = 14
    THEN IF Len(SliceTo(rawdata, 2)) # 2
         THEN [status |-> "struct.error"]
         ELSE [status |-> "ok", value |-> UnpackH(SliceTo(rawdata, 2)) + 269,
               rawdata |-> SliceFrom(rawdata, 2)]
    ELSE [status |-> "ValueError"]

\* writeExtendedFieldValue packing the two extension bytes low byte first ('<H')
writeExtendedFieldValue_LittleEndian(value) ==
    IF value >= 0 /\ value < 13
    THEN [status |-> "ok", nibble |-> value, ext |-> <<>>]
    ELSE IF value >= 13 /\ value < 269
    THEN [status |-> "ok", nibble |-> 13, ext |-> PackB(value - 13)]
    ELSE IF value >= 269 /\ value < 65804
    THEN [status |-> "ok", nibble |-> 14,
          ext |-> <<(value - 269) % 256, (value - 269) \div 256>>]
    ELSE [status |-> "ValueError"]

\* writeExtendedFieldValue accepting every value two extension bytes can carry
\* (value < 65805)
writeExtendedFieldValue_Wide(value) ==
    IF value >= 0 /\ value < 13
    THEN [status |-> "ok", nibble |-> value, ext |-> <<>>]
    ELSE IF value >= 13 /\ value < 269
    THEN [status |-> "ok", nibble |-> 13, ext |-> PackB(value - 13)]
    ELSE IF value >= 269 /\ value < 65805
    THEN [status |-> "ok", nibble |-> 14, ext |-> PackH(value - 269)]
    ELSE [status |-> "ValueError"]

writeExtendedFieldValue(value) ==
    IF value >= 0 /\ value < 13
    THEN [status |-> "ok", nibble |-> value, ext |-> <<>>]
    ELSE IF value >= 13 /\ value < 269
    THEN [status |-> "ok", nibble |-> 13, ext |-> PackB(value - 13)]
    ELSE IF value >= 269 /\ value < 65804
    THEN [status |-> "ok", nibble |-> 14, ext |-> PackH(value - 269)]
    ELSE [status |-> "ValueError"]

----------------------------------------------------------------------------
(* The codec on its own: Init draws one call, the actions make it *)

\* trailing bytes that follow an encoded field: 0xFF, 0x00, 0xFF, ...
Trailers == { [i \in 1..k |-> IF i % 2 = 1 THEN 255 ELSE 0] : k \in 0..MaxTrailing }

ByteSample == {0, 1, 255}

\* the greatest value writeExtendedFieldValue encodes
MaxEncodable == 65803

InitVarint ==
    /\ _options = << >>
    /\ \/ \E v \in (0 - ValueSlack)..(MaxEncodable + ValueSlack), R \in Trailers :
            input = [fn |-> "write", value |-> v, trailing |-> R]
       \/ \E n \in 0..15, raw \in SeqsUpTo(ByteSample, MaxExt) :
            input = [fn |-> "read", nibble |-> n, rawdata |-> raw]
    /\ result = [status |-> "none"]
    /\ pc = "call"

\* writeExtendedFieldValue(value)
Write ==
    /\ pc = "call" /\ input.fn = "write"
    /\ result' = [written |-> writeExtendedFieldValue(input.value)]
    /\ pc' = "written"
    /\ UNCHANGED <<_options, input>>

\* readExtendedFieldValue on what Write produced, followed by the trailing bytes
ReadBack ==
    /\ pc = "written" /\ result.written.status = "ok"
    /\ result' = [written |-> result.written,
                  read |-> readExtendedFieldValue(result.written.nibble,
                                                  result.written.ext \o input.trailing)]
    /\ pc' = "readback"
    /\ UNCHANGED <<_options, input>>

\* readExtendedFieldValue(nibble, rawdata)
Read ==
    /\ pc = "call" /\ input.fn = "read"
    /\ result' = [read |-> readExtendedFieldValue(input.nibble, input.rawdata)]
    /\ pc' = "read"
    /\ UNCHANGED <<_options, input>>

\* writeExtendedFieldValue on the value Read returned
WriteBack ==
    /\ pc = "read" /\ result.read.status = "ok"
    /\ result' = [read |-> result.read,
                  written |-> writeExtendedFieldValue(result.read.value)]
    /\ pc' = "rewritten"
    /\ UNCHANGED <<_options, input>>

NextVarint == Write \/ ReadBack \/ Read \/ WriteBack

SpecVarint == InitVarint /\ [][NextVarint]_vars

----------------------------------------------------------------------------
(* Option instances (the option types and OptionNumber live in .numbers and *)
(* .optiontypes; an instance is its number and its value, an opaque value   *)
(* being its raw bytes)                                                     *)

\* option_number.create_option(value=v)
create_option_value(option_number, v) == [number |-> option_number, value |-> v]

\* option_number.create_option(decode=raw)
create_option_decode(option_number, raw) == [number |-> option_number, value |-> raw]

\* option.encode()
OptionEncode(option) == option.value

\* option.length
OptionLength(option) == Len(OptionEncode(option))

\* Python's None, distinct from every byte string
None == <<-1>>

----------------------------------------------------------------------------
(* Options: the container *)

\* Options.__init__: self._options = {}
NewOptions == << >>

\* addOption inserting at the front of the number's list (insert(0, option))
addOption_Prepend(opts, option) ==
    IF option.number \in DOMAIN opts
    THEN [opts EXCEPT ![option.number] = <<option>> \o @]
    ELSE [k \in DOMAIN opts \cup {option.number} |->
            IF k = option.number THEN <<option>> ELSE opts[k]]

addOption(opts, option) ==
    IF option.number \in DOMAIN opts
    THEN [opts EXCEPT ![option.number] = Append(@, option)]
    ELSE [k \in DOMAIN opts \cup {option.number} |->
            IF k = option.number THEN <<option>> ELSE opts[k]]

\* deleteOption emptying the number's list and keeping the key
deleteOption_KeepKey(opts, number) ==
    IF number \in DOMAIN opts
    THEN [opts EXCEPT ![number] = <<>>]
    ELSE opts

deleteOption(opts, number) ==
    IF number \in DOMAIN opts
    THEN [k \in DOMAIN opts \ {number} |-> opts[k]]
    ELSE opts

getOption(opts, number) ==
    IF number \in DOMAIN opts THEN opts[number] ELSE <<>>

\* sorted(self._options.values(), key=lambda x: x[0].number), then chained:
\* the lists in ascending order of their first instance's number (lists whose
\* first numbers tie are taken in key order; none tie while each list holds
\* instances of its own key)
RECURSIVE chainSorted(_, _)
chainSorted(opts, keys) ==
    IF keys = {} THEN <<>>
    ELSE LET k == CHOOSE k \in keys : \A j \in keys :
                    \/ opts[k][1].number < opts[j][1].number
                    \/ opts[k][1].number = opts[j][1].number /\ k <= j
         IN opts[k] \o chainSorted(opts, keys \ {k})

\* x[0] of an empty list raises IndexError
optionList(opts) ==
    IF \E k \in DOMAIN opts : Len(opts[k]) = 0
    THEN [status |-> "IndexError"]
    ELSE [status |-> "ok", list |-> chainSorted(opts, DOMAIN opts)]

\* the loop of Options.encode over option_list from index i on
RECURSIVE encodeLoop(_, _, _, _)
encodeLoop(option_list, i, current_opt_num, data) ==
    IF i > Len(option_list) THEN [status |-> "ok", data |-> data]
    ELSE LET option == option_list[i]
             d == writeExtendedFieldValue(option.number - current_opt_num)
             l == writeExtendedFieldValue(OptionLength(option))
         IN IF d.status # "ok" THEN [status |-> d.status]
            ELSE IF l.status # "ok" THEN [status |-> l.status]
            ELSE encodeLoop(option_list, i + 1, option.number,
                            data \o <<(d.nibble % 16) * 16 + (l.nibble % 16)>>
                                 \o d.ext \o l.ext \o OptionEncode(option))

encode(opts) ==
    LET option_list == optionList(opts)
    IN IF option_list.status # "ok" THEN [status |-> option_list.status]
       ELSE encodeLoop(option_list.list, 1, 0, <<>>)

\* the loop of Options.decode. calls lists, for each addOption the loop made, the
\* locals it was made with: option_number, length and the bytes rawdata[:length].
\* rawdata is the loop's rawdata where it stopped, ret the value returned.
RECURSIVE decodeLoop(_, _, _, _)
\* the loop of decode returning rawdata, marker included, at the marker
decodeLoop_KeepMarker(opts, option_number, rawdata, calls) ==
    IF Len(rawdata) = 0
    THEN [status |-> "ok", options |-> opts, ret |-> <<>>,
          rawdata |-> rawdata, calls |-> calls]
    ELSE IF rawdata[1] = 255
    THEN [status |-> "ok", options |-> opts, ret |-> rawdata,
          rawdata |-> rawdata, calls |-> calls]
    ELSE LET dllen == rawdata[1]
             d == readExtendedFieldValue(dllen \div 16, SliceFrom(rawdata, 1))
         IN IF d.status # "ok"
            THEN [status |-> d.status, options |-> opts, calls |-> calls]
            ELSE LET l == readExtendedFieldValue(dllen % 16, d.rawdata)
                 IN IF l.status # "ok"
                    THEN [status |-> l.status, options |-> opts, calls |-> calls]
                    ELSE LET number == option_number + d.value
                             raw == SliceTo(l.rawdata, l.value)
                             option == create_option_decode(number, raw)
                         IN decodeLoop(addOption(opts, option), number,
                                       SliceFrom(l.rawdata, l.value),
                                       Append(calls, [number |-> number,
                                                      length |-> l.value,
                                                      raw |-> raw]))

decodeLoop(opts, option_number, rawdata, calls) ==
    IF Len(rawdata) = 0
    THEN [status |-> "ok", options |-> opts, ret |-> <<>>,
          rawdata |-> rawdata, calls |-> calls]
    ELSE IF rawdata[1] = 255
    THEN [status |-> "ok", options |-> opts, ret |-> SliceFrom(rawdata, 1),
          rawdata |-> rawdata, calls |-> calls]
    ELSE LET dllen == rawdata[1]
             d == readExtendedFieldValue(dllen \div 16, SliceFrom(rawdata, 1))
         IN IF d.status # "ok"
            THEN [status |-> d.status, options |-> opts, calls |-> calls]
            ELSE LET l == readExtendedFieldValue(dllen % 16, d.rawdata)
                 IN IF l.status # "ok"
                    THEN [status |-> l.status, options |-> opts, calls |-> calls]
                    ELSE LET number == option_number + d.value
                             raw == SliceTo(l.rawdata, l.value)
                             option == create_option_decode(number, raw)
                         IN decodeLoop(addOption(opts, option), number,
                                       SliceFrom(l.rawdata, l.value),
                                       Append(calls, [number |-> number,
                                                      length |-> l.value,
                                                      raw |-> raw]))

decode(opts, rawdata) == decodeLoop(opts, 0, rawdata, <<>>)

----------------------------------------------------------------------------
(* The accessor views *)

_single_value_view_getter(opts, option_number) ==
    LET options == getOption(opts, option_number)
    IN IF Len(options) = 0 THEN None ELSE options[1].value

\* the setter adding without deleting first
_single_value_view_setter_Merge(opts, value, option_number) ==
    IF value # None
    THEN addOption(opts, create_option_value(option_number, value))
    ELSE deleteOption(opts, option_number)

_single_value_view_setter(opts, value, option_number) ==
    LET deleted == deleteOption(opts, option_number)
    IN IF value # None
       THEN addOption(deleted, create_option_value(option_number, value))
       ELSE deleted

_items_view_getter(opts, option_number) ==
    LET options == getOption(opts, option_number)
    IN [i \in 1..Len(options) |-> options[i].value]

\* for v in value: self.addOption(...), from index i on
RECURSIVE addEach(_, _, _, _)
addEach(opts, value, i, option_number) ==
    IF i > Len(value) THEN opts
    ELSE addEach(addOption(opts, create_option_value(option_number, value[i])),
                 value, i + 1, option_number)

\* the setter adding without deleting first
_items_view_setter_Merge(opts, value, option_number) ==
    addEach(opts, value, 1, option_number)

_items_view_setter(opts, value, option_number) ==
    addEach(deleteOption(opts, option_number), value, 1, option_number)

\* _deleter(self, value, option_number=option_number) called with the
\* positional arguments args after self: value is required
_deleter(opts, args, option_number) ==
    IF Len(args) = 0
    THEN [status |-> "TypeError", options |-> opts]
    ELSE [status |-> "ok", options |-> deleteOption(opts, option_number)]

\* del of a property(_getter, _setter, _deleter, doc): fdel(self)
_single_value_view_delete(opts, option_number) == _deleter(opts, <<>>, option_number)

\* del of a property(_getter, _setter, doc=...): no fdel, AttributeError
_items_view_delete(opts, option_number) ==
    [status |-> "AttributeError", options |-> opts]

----------------------------------------------------------------------------
(* Options.decode on its own: Init draws the raw bytes, Decode decodes them *)
(* into a new container                                                     *)

\* header bytes 0x00 0x01 0x12 0x0D 0xD0 0xE0 0xF0 and the marker 0xFF
DecodeBytes == {0, 1, 18, 13, 208, 224, 240, 255}

\* longest raw input to decode drawn byte by byte
MaxRaw == 4

\* longer inputs: a 13-byte and a 269-byte value, whole and cut short, an
\* extended delta, each alone, before a marker and payload, and before an option
LongInputs ==
    LET heads == { <<13, 0>> \o Rep(13, 255),
                   <<13, 0>> \o Rep(12, 255),
                   <<14, 0, 0>> \o Rep(269, 1),
                   <<14, 0, 0>> \o Rep(268, 1),
                   <<209, 5, 1>>,
                   <<225, 255, 254, 7>>,
                   <<225, 255, 255, 7>> }
        tails == { <<>>, <<255>>, <<255, 18, 255>>, <<1, 255>> }
    IN { h \o t : h \in heads, t \in tails }

InitDecode ==
    /\ _options = NewOptions
    /\ \E raw \in SeqsUpTo(DecodeBytes, MaxRaw) \cup LongInputs :
            input = [fn |-> "decode", rawdata |-> raw]
    /\ result = [status |-> "none"]
    /\ pc = "call"

\* Options().decode(rawdata)
Decode ==
    /\ pc = "call"
    /\ LET r == decode(_options, input.rawdata)
       IN /\ _options' = r.options
          /\ result' = [s \in DOMAIN r \ {"options"} |-> r[s]]
          /\ pc' = IF r.status = "ok" THEN "returned" ELSE "raised"
    /\ UNCHANGED input

NextDecode == Decode

SpecDecode == InitDecode /\ [][NextDecode]_vars

----------------------------------------------------------------------------
(* Encode, then decode into a new container: Init draws the options to add *)

\* most options added to the container
MaxOpts == 3

\* option numbers whose differences fall in each tier: 0 5 13 18 65517 65530 65535
SampleNumbers == {5, 18, 65535}

\* raw values whose lengths fall in each tier, bytes 0xFF among them
SampleValues == { <<>>, <<255>>, Rep(13, 1), Rep(269, 255) }

SampleOptions == { [number |-> n, raw |-> v] : n \in SampleNumbers, v \in SampleValues }

InitRoundTrip ==
    /\ _options = NewOptions
    /\ \E l \in SeqsUpTo(SampleOptions, MaxOpts) : input = [fn |-> "roundtrip", adds |-> l]
    /\ result = [added |-> 0]
    /\ pc = "adding"

\* addOption of the next option of the list
AddNext ==
    /\ pc = "adding" /\ result.added < Len(input.adds)
    /\ LET a == input.adds[result.added + 1]
       IN _options' = addOption(_options, create_option_decode(a.number, a.raw))
    /\ result' = [added |-> result.added + 1]
    /\ UNCHANGED <<input, pc>>

\* encode()
Encode ==
    /\ pc = "adding" /\ result.added = Len(input.adds)
    /\ result' = [wire |-> encode(_options)]
    /\ pc' = "encoded"
    /\ UNCHANGED <<_options, input>>

\* Options().decode(wire): the new container is result.decoded.options
DecodeWire ==
    /\ pc = "encoded" /\ result.wire.status = "ok"
    /\ result' = [wire |-> result.wire, decoded |-> decode(NewOptions, result.wire.data)]
    /\ pc' = "decoded"
    /\ UNCHANGED <<_options, input>>

NextRoundTrip == AddNext \/ Encode \/ DecodeWire

SpecRoundTrip == InitRoundTrip /\ [][NextRoundTrip]_vars

----------------------------------------------------------------------------
(* The container under its operations and views *)

\* most instances the model keeps under one number
MaxPerKey == 2

Numbers == {4, 11}

\* "a", "b"
Values == { <<97>>, <<98>> }

\* 4:"a" | 4:"a" 11:"b" | 11:"a" 11:"b" | 11:"a" then nibble 15 |
\* 4:"b" marker "a" | 4:"a" then a missing extension byte | nothing
DecodeSample ==
    { <<65, 97>>, <<65, 97, 113, 98>>, <<177, 97, 1, 98>>, <<177, 97, 240>>,
      <<65, 98, 255, 97>>, <<65, 97, 13>>, <<>> }

Fits(opts) == \A k \in DOMAIN opts : Len(opts[k]) <= MaxPerKey

Init ==
    /\ _options = NewOptions
    /\ input = [fn |-> "none"]
    /\ result = [status |-> "none"]
    /\ pc = "idle"

Done(fn, args, status) ==
    /\ input' = [fn |-> fn] @@ args
    /\ result' = [status |-> status, before |-> _options]
    /\ pc' = "idle"

AddOption ==
    \E n \in Numbers, v \in Values :
        /\ Len(getOption(_options, n)) < MaxPerKey
        /\ _options' = addOption(_options, create_option_value(n, v))
        /\ Done("addOption", [number |-> n, value |-> v], "ok")

DeleteOption ==
    \E n \in Numbers :
        /\ _options' = deleteOption(_options, n)
        /\ Done("deleteOption", [number |-> n], "ok")

DecodeInto ==
    \E raw \in DecodeSample :
        LET r == decode(_options, raw)
        IN /\ Fits(r.options)
           /\ _options' = r.options
           /\ Done("decode", [rawdata |-> raw], r.status)

\* self.view = value for a single-value view on n
SingleSet ==
    \E n \in Numbers, v \in Values \cup {None} :
        /\ _options' = _single_value_view_setter(_options, v, n)
        /\ Done("single_set", [number |-> n, value |-> v], "ok")

\* self.view = value for an items view on n
ItemsSet ==
    \E n \in Numbers, vs \in SeqsUpTo(Values, MaxPerKey) :
        /\ _options' = _items_view_setter(_options, vs, n)
        /\ Done("items_set", [number |-> n, value |-> vs], "ok")

\* del self.view for a single-value view on n
SingleDelete ==
    \E n \in Numbers :
        LET r == _single_value_view_delete(_options, n)
        IN /\ _options' = r.options
           /\ Done("single_del", [number |-> n], r.status)

\* del self.view for an items view on n
ItemsDelete ==
    \E n \in Numbers :
        LET r == _items_view_delete(_options, n)
        IN /\ _options' = r.options
           /\ Done("items_del", [number |-> n], r.status)

Next ==
    \/ AddOption
    \/ DeleteOption
    \/ DecodeInto
    \/ SingleSet
    \/ ItemsSet
    \/ SingleDelete
    \/ ItemsDelete

Spec == Init /\ [][Next]_vars

----------------------------------------------------------------------------
(* Properties of the codec, under SpecVarint *)

\* the tier table: the nibble and the extension bytes of a value in 0..65803
TierNibble(v) == IF v <= 12 THEN v ELSE IF v <= 268 THEN 13 ELSE 14

TierExt(v) ==
    IF v <= 12 THEN <<>>
    ELSE IF v <= 268 THEN <<v - 13>>
    ELSE <<(v - 269) \div 256, (v - 269) % 256>>

\* the logical range of a nibble in 0..14
TierRange(n) ==
    IF n <= 12 THEN {n} ELSE IF n = 13 THEN 13..268 ELSE 269..MaxEncodable

\* C1: for every v in 0..65803 writeExtendedFieldValue(v) returns the nibble and
\* the extension bytes of the tier table, and readExtendedFieldValue on that
\* nibble and those bytes followed by trailing bytes R returns exactly (v, R).
Thm_C1_VarintRoundTrip ==
    /\ (pc \in {"written", "readback"} /\ input.value \in 0..MaxEncodable)
         => result.written = [status |-> "ok", nibble |-> TierNibble(input.value),
                              ext |-> TierExt(input.value)]
    /\ pc = "readback"
         => /\ input.value \in 0..MaxEncodable
            /\ result.read = [status |-> "ok", value |-> input.value,
                              rawdata |-> input.trailing]

\* the greatest value, in the two-byte tier, read back before trailing bytes
Wit_C1_VarintRoundTrip ==
    /\ pc = "readback"
    /\ input.value = MaxEncodable
    /\ Len(input.trailing) = 2
    /\ result.read.value = MaxEncodable

\* C4: writeExtendedFieldValue raises the out-of-range error for every value
\* >= 65804 and every negative value and for no value in 0..65803;
\* readExtendedFieldValue raises it for nibble 15 whatever the bytes, and
\* returns no value then.
Thm_C4_OutOfRange ==
    /\ pc = "written"
         => /\ result.written.status \in {"ok", "ValueError"}
            /\ result.written.status = "ValueError"
                 <=> (input.value > MaxEncodable \/ input.value < 0)
    /\ (pc = "read" /\ input.nibble = 15) => result.read = [status |-> "ValueError"]

\* the first value past the range is refused
Wit_C4_OutOfRange ==
    /\ pc = "written"
    /\ input.value = MaxEncodable + 1
    /\ result.written.status = "ValueError"

\* C10: for every nibble in 0..14 and every content of the extension bytes
\* readExtendedFieldValue returns a value inside the nibble's range of the tier
\* table, so writeExtendedFieldValue accepts it and gives back the same nibble
\* and the same extension bytes.
Claim_C10_ReadWithinTier ==
    /\ (pc \in {"read", "rewritten"} /\ input.nibble \in 0..14
          /\ result.read.status = "ok")
         => result.read.value \in TierRange(input.nibble)
    /\ pc = "rewritten"
         => /\ result.written.status = "ok"
            /\ result.written.nibble = input.nibble
            /\ result.written.ext \o result.read.rawdata = input.rawdata

----------------------------------------------------------------------------
(* Properties of decode, under SpecDecode *)

\* every addOption of the decode got as many bytes as the header declared
NoShortValue ==
    \A i \in 1..Len(result.calls) :
        Len(result.calls[i].raw) = result.calls[i].length

\* C3: decode stops at the first 0xFF at an option boundary and returns exactly
\* the bytes after it, having added only the options before it; with no such
\* marker the payload is empty. The empty input gives an empty container and an
\* empty payload; 0xFF followed by P gives an empty container and P.
Thm_C3_MarkerAndPayload ==
    /\ pc = "returned"
         => /\ \/ result.rawdata = <<>> /\ result.ret = <<>>
               \/ /\ result.rawdata # <<>>
                  /\ result.rawdata[1] = 255
                  /\ result.rawdata = <<255>> \o result.ret
            /\ (NoShortValue /\ encode(_options).status = "ok")
                 => input.rawdata = encode(_options).data \o result.rawdata
    /\ (pc # "call" /\ input.rawdata = <<>>)
         => pc = "returned" /\ _options = NewOptions /\ result.ret = <<>>
    /\ (pc # "call" /\ input.rawdata # <<>> /\ input.rawdata[1] = 255)
         => /\ pc = "returned"
            /\ _options = NewOptions
            /\ result.ret = Tail(input.rawdata)

\* an option whose value holds 0xFF, then the marker, then a payload
Wit_C3_MarkerAndPayload ==
    /\ pc = "returned"
    /\ NoShortValue
    /\ \E k \in DOMAIN _options : \E i \in 1..Len(_options[k]) :
           \E j \in 1..Len(_options[k][i].value) : _options[k][i].value[j] = 255
    /\ Len(result.ret) >= 1
    /\ Len(result.rawdata) < Len(input.rawdata)

\* C5: truncated input to decode is surfaced as an error: decode never adds an
\* option whose raw value is shorter than its declared length and never returns
\* normally on such input.
Claim_C5_TruncatedIsError ==
    pc \in {"returned", "raised"} => NoShortValue

----------------------------------------------------------------------------
(* Encode then decode, under SpecRoundTrip *)

\* the added options in ascending order of number, those of one number in the
\* order they were added
RECURSIVE SortedByNumber(_, _)
SortedByNumber(adds, numbers) ==
    IF numbers = {} THEN <<>>
    ELSE LET m == CHOOSE x \in numbers : \A y \in numbers : x <= y
             IsM(a) == a.number = m
         IN SelectSeq(adds, IsM) \o SortedByNumber(adds, numbers \ {m})

\* the number and the raw bytes of each instance of a list
AsPairs(list) ==
    [i \in 1..Len(list) |-> [number |-> list[i].number, raw |-> OptionEncode(list[i])]]

\* C2: for options added to an empty container in any order, decoding the
\* output of encode() into a new container gives an optionList() with the same
\* numbers and raw bytes as the original's: ascending by number, options of one
\* number in insertion order; and the decode returns an empty payload.
Thm_C2_EncodeDecodeRoundTrip ==
    /\ pc \in {"encoded", "decoded"} => result.wire.status = "ok"
    /\ pc = "decoded"
         => /\ result.decoded.status = "ok"
            /\ result.decoded.ret = <<>>
            /\ LET got == optionList(result.decoded.options)
                   had == optionList(_options)
               IN /\ got.status = "ok" /\ had.status = "ok"
                  /\ AsPairs(got.list) = AsPairs(had.list)
                  /\ AsPairs(had.list) = SortedByNumber(input.adds, SampleNumbers)

\* two different options of one number added before an option of a lower number
Wit_C2_EncodeDecodeRoundTrip ==
    /\ pc = "decoded"
    /\ Len(input.adds) = 3
    /\ input.adds[1].number = input.adds[2].number
    /\ input.adds[1].raw # input.adds[2].raw
    /\ input.adds[3].number < input.adds[1].number
    /\ Len(input.adds[1].raw) = 269
    /\ result.decoded.status = "ok"

----------------------------------------------------------------------------
(* Properties of the container and its views, under Spec *)

\* C6: single-value view on n: a set to a value v leaves exactly one instance
\* for n, built from v, whatever was there, and get then returns v; get returns
\* None without an instance for n and the first instance's value otherwise; a
\* set to None leaves the container as deleteOption(n) does.
Thm_C6_SingleValueView ==
    /\ (input.fn = "single_set" /\ input.value # None)
         => /\ getOption(_options, input.number)
                 = <<create_option_value(input.number, input.value)>>
            /\ _single_value_view_getter(_options, input.number) = input.value
    /\ (input.fn = "single_set" /\ input.value = None)
         => /\ _options = deleteOption(result.before, input.number)
            /\ getOption(_options, input.number) = <<>>
    /\ \A n \in Numbers :
         _single_value_view_getter(_options, n)
           = IF n \notin DOMAIN _options \/ Len(_options[n]) = 0
             THEN None ELSE _options[n][1].value

\* a value set over two instances of the number
Wit_C6_SingleValueView ==
    /\ input.fn = "single_set"
    /\ input.value # None
    /\ Len(getOption(result.before, input.number)) = 2
    /\ Len(getOption(_options, input.number)) = 1

\* C7: items view on n: a set to a sequence of values leaves exactly those
\* values in that order (no earlier instance of n remains), leaves the other
\* numbers' sequences unchanged, and the same set done again leaves the same.
Thm_C7_ItemsView ==
    input.fn = "items_set"
      => /\ _items_view_getter(_options, input.number) = input.value
         /\ Len(getOption(_options, input.number)) = Len(input.value)
         /\ \A m \in Numbers \ {input.number} :
              /\ m \in DOMAIN _options <=> m \in DOMAIN result.before
              /\ getOption(_options, m) = getOption(result.before, m)
         /\ _items_view_setter(_options, input.value, input.number) = _options

\* two values set over other instances of the number, beside another number
Wit_C7_ItemsView ==
    /\ input.fn = "items_set"
    /\ Len(input.value) = 2
    /\ input.value[1] # input.value[2]
    /\ Len(getOption(result.before, input.number)) = 2
    /\ _items_view_getter(result.before, input.number) # input.value
    /\ \E m \in Numbers \ {input.number} : m \in DOMAIN _options

\* C8: the delete of a single-value view and of an items view on n removes all
\* instances for n and completes without error, leaving getOption(n) empty.
Claim_C8_ViewDelete ==
    input.fn \in {"single_del", "items_del"}
      => /\ result.status = "ok"
         /\ getOption(_options, input.number) = <<>>

\* C9: in every reachable state no key maps to an empty sequence and every
\* instance under key k has number k, so optionList() is defined.
Thm_C9_ContainerInvariant ==
    /\ \A k \in DOMAIN _options :
         /\ Len(_options[k]) >= 1
         /\ \A i \in 1..Len(_options[k]) : _options[k][i].number = k
    /\ optionList(_options).status = "ok"

\* an items view set to the empty sequence over a number that had instances,
\* while another number keeps its own
Wit_C9_ContainerInvariant ==
    /\ input.fn = "items_set"
    /\ input.value = <<>>
    /\ input.number \in DOMAIN result.before
    /\ input.number \notin DOMAIN _options
    /\ DOMAIN _options # {}

====
